---- MODULE Spec2Model ----
(***************************************************************************)
(* Model of the analytics service's forecast pipeline:                     *)
(*   app/services/forecasting.py  generate_forecast(db, payload)           *)
(*   app/routers/forecast.py      run_forecast(payload, db)                *)
(*                                                                         *)
(* Time is an integer number of ticks, TicksPerHour ticks to the hour.     *)
(* The database is two tables: calls (read) and forecast_heatmap (store).  *)
(* Each run works in its own session; the INSERTs of a session stay in its *)
(* open transaction (pending) until db.commit() makes them rows of store.  *)
(* A table is a collection of rows without an order. The schema of         *)
(* forecast_heatmap is not part of the sources: the table may or may not   *)
(* have a unique key on (parish_id, cell_id, bucket_start), and both are   *)
(* covered (unique_key).                                                   *)
(* A nullable timestamp is <<>> (NULL) or <<t>>, t the instant; the UTC    *)
(* offset a timestamptz is returned with follows from the session's        *)
(* TimeZone and the instant. A request's start and end are instants, each  *)
(* with the zone it was given in ("naive" for none).                       *)
(* A float is an exact fraction <<num, den>> in lowest terms; <<0, 0>> is  *)
(* NaN.                                                                    *)
(* The field "run" of an inserted row is not a column of the table: it     *)
(* records which run issued the INSERT, so that properties can speak about *)
(* "the rows of a run".                                                    *)
(***************************************************************************)
EXTENDS Integers, Sequences, FiniteSets, TLC

VARIABLES
    calls,      \* table calls: sequence of [parish_id, response_date_time]
    tz,         \* TimeZone setting of the database sessions
    store,      \* table forecast_heatmap as committed: set of rows
    unique_key, \* whether forecast_heatmap has a unique key on area, cell, bucket
    commit_order, \* the runs whose db.commit() returned, first to last
    pc,         \* per run: stage of the pipeline
    payload,    \* per run: the ForecastRequest
    rows,       \* per run: result of the historical query (call_ts column)
    series,     \* per run: df.groupby("bucket").size()
    future_index, \* per run: pd.date_range(start, end, freq="H")
    baseline,   \* per run: series.mean()
    forecast,   \* per run: sequence of <<bucket, value>>
    idx,        \* per run: number of items of forecast already iterated
    pending,    \* per run: rows inserted in the session's open transaction
    issued,     \* per run: statements issued so far [inserts, commits]
    result      \* per run: what run_forecast hands back

vars == <<calls, tz, store, unique_key, commit_order, pc, payload, rows, series, future_index, baseline,
          forecast, idx, pending, issued, result>>

----------------------------------------------------------------------------
(* Bounds of the model *)

TicksPerHour == 2
MaxStart == 1
MaxTime == 4
MaxCallTime == 1
MaxCalls == 3

(* Program constants *)

LookbackDays == 90

Runs == {"A", "B"}
Parishes == {7, 8}
Granularities == {"global", "zone"}
RequestZones == {"naive", "UTC"}
Zones == {"UTC", "local"}

Null == <<>>
NaN == <<0, 0>>
Hour == TicksPerHour
Lookback == LookbackDays * 24 * TicksPerHour

\* the instant at which the zone "local" changes to daylight saving time
DstStart == -Hour

----------------------------------------------------------------------------
(* Arithmetic helpers *)

RECURSIVE GCD(_, _)
GCD(a, b) == IF b = 0 THEN a ELSE GCD(b, a % b)

\* a / b as a float: the fraction in lowest terms, NaN for 0 / 0
Frac(a, b) ==
    IF b = 0 THEN NaN
    ELSE LET g == GCD(a, b) IN <<a \div g, b \div g>>

CeilDiv(a, b) == (a + b - 1) \div b

RECURSIVE SumOver(_, _)
SumOver(f, S) ==
    IF S = {} THEN 0
    ELSE LET x == CHOOSE y \in S : TRUE IN f[x] + SumOver(f, S \ {x})

----------------------------------------------------------------------------
(* The historical query, lines 8-24 *)

\* the UTC offset (hours) of instant t in the session's zone, which is also
\* the offset of the datetime the driver returns for it
UtcOffset(zone, t) ==
    IF zone = "UTC" THEN 0
    ELSE IF t < DstStart THEN -6 ELSE -5

\* :start - interval '90 days' (line 15): 90 calendar days back at the same
\* wall-clock time of the session's zone, so the instant moves by the change
\* of UTC offset over the window
LowerBound(zone, start) ==
    start - Lookback
        + (UtcOffset(zone, start) - UtcOffset(zone, start - Lookback)) * Hour

\* a WHERE clause that only looks at the parish
QualifiesAll(c, p, zone) == c.parish_id = p.parish_id

\* WHERE clause of the SELECT on calls, lines 13-16
Qualifies(c, p, zone) ==
    /\ c.parish_id = p.parish_id
    /\ c.response_date_time # Null
    /\ c.response_date_time[1] >= LowerBound(zone, p.start)
    /\ c.response_date_time[1] < p.end

\* SELECT response_date_time::timestamptz AS call_ts ... .all()
HistoricalQuery(tbl, p, zone) ==
    SelectSeq(tbl, LAMBDA c : Qualifies(c, p, zone))

CallTs(selected) == [i \in DOMAIN selected |-> selected[i].response_date_time]

----------------------------------------------------------------------------
(* Bucketizer, lines 30-32 *)

\* pd.DataFrame(...) keeps datetimes of different UTC offsets as an object
\* column, on which .dt raises (line 31)
MixedOffsets(zone, ts) ==
    \E i, j \in {k \in DOMAIN ts : ts[k] # Null} :
        UtcOffset(zone, ts[i][1]) # UtcOffset(zone, ts[j][1])

\* Timestamp.floor("H")
FloorHour(t) == t - (t % TicksPerHour)

\* df.groupby("bucket").size(): rows whose key is NaT are dropped by groupby
GroupSize(ts) ==
    LET valid == {i \in DOMAIN ts : ts[i] # Null}
        keys == {FloorHour(ts[i][1]) : i \in valid}
    IN [b \in keys |-> Cardinality({i \in valid : FloorHour(ts[i][1]) = b})]

----------------------------------------------------------------------------
(* Baseline estimator, line 37 *)

\* a stricter baseline: every hour between the first and the last bucket counts
MeanOverSpan(s) ==
    IF DOMAIN s = {} THEN NaN
    ELSE LET lo == CHOOSE b \in DOMAIN s : \A c \in DOMAIN s : b <= c
             hi == CHOOSE b \in DOMAIN s : \A c \in DOMAIN s : c <= b
         IN Frac(SumOver(s, DOMAIN s), (hi - lo) \div Hour + 1)

\* series.mean(): NaN on an empty series
Mean(s) == Frac(SumOver(s, DOMAIN s), Cardinality(DOMAIN s))

----------------------------------------------------------------------------
(* Forecast projector, lines 35-40 *)

\* pd.date_range raises when start and end are not of the same zone (one
\* naive and one aware, or aware in different zones)
SameZone(p) == p.start_tz = p.end_tz

\* pd.date_range(start, end, freq="H"): start, start + 1h, ... up to and
\* including end; empty when end < start
DateRange(start, end) ==
    IF end < start THEN <<>>
    ELSE [k \in 1..((end - start) \div Hour + 1) |-> start + (k - 1) * Hour]

\* pd.Series([series.mean()] * len(future_index), index=future_index)
Project(index, mean) == [k \in DOMAIN index |-> <<index[k], mean>>]

----------------------------------------------------------------------------
(* Forecast writer, lines 43-73 *)

\* a bug that keys the cell on the request's granularity
InsertParamsByGranularity(r, p, item) ==
    [parish_id |-> p.parish_id,
     cell_id |-> p.granularity,
     bucket_start |-> item[1],
     bucket_end |-> item[1] + Hour,
     forecast_calls |-> item[2],
     model_version |-> "naive_v0",
     run |-> r]

\* the bind parameters of the INSERT, lines 58-65
InsertParams(r, p, item) ==
    [parish_id |-> p.parish_id,
     cell_id |-> "global",
     bucket_start |-> item[1],
     bucket_end |-> item[1] + Hour,
     forecast_calls |-> item[2],
     model_version |-> "naive_v0",
     run |-> r]

NoResult == [kind |-> "none"]
NoDataResult == [kind |-> "ok", message |-> "No data"]
Summary(n) == [kind |-> "ok", rows_written |-> n, model_version |-> "naive_v0"]
ErrorResult == [kind |-> "error", status_code |-> 500]

\* The session handed in by get_db (app/db.py) is transactional: a statement
\* executed in it joins the session's open transaction ...
SessionExecute(txn, row) == Append(txn, row)

\* ... and a commit makes the rows of the transaction rows of the table,
\* together; the INSERT of lines 47-55 has no ON CONFLICT clause and nothing
\* deletes from forecast_heatmap, so every row already in the table stays
SessionCommit(tbl, txn) == tbl \cup {txn[i] : i \in DOMAIN txn}

\* two rows with the same values in the columns of the key
SameKey(x, y) ==
    /\ x.parish_id = y.parish_id
    /\ x.cell_id = y.cell_id
    /\ x.bucket_start = y.bucket_start

\* With a unique key an INSERT does not go through while a row of its key is
\* in the table (it raises) or in the open transaction of another session
\* (it waits for that transaction to end).
KeyTaken(unique, tbl, open, row) ==
    /\ unique
    /\ \E x \in tbl \cup open : SameKey(x, row)

InsertsOf(r) == issued[r].inserts
CommitsOf(r) == issued[r].commits

----------------------------------------------------------------------------
(* Inputs *)

NoRequest ==
    [parish_id |-> 0, start |-> 0, end |-> 0, granularity |-> "none",
     start_tz |-> "naive", end_tz |-> "naive"]

\* ForecastRequest, routers/forecast.py lines 11-15
Requests ==
    [parish_id : Parishes, start : 0..MaxStart, end : 0..MaxTime,
     granularity : Granularities,
     start_tz : RequestZones, end_tz : RequestZones]

CallTimes ==
    {Null} \cup
    {<<t>> : t \in {-Lookback, -Lookback + Hour} \cup (0..MaxCallTime)}

CallRows == [parish_id : Parishes, response_date_time : CallTimes]

TimeKey(ts) == IF ts = Null THEN -Lookback - 1 ELSE ts[1]

RowLeq(c, d) ==
    \/ c.parish_id < d.parish_id
    \/ /\ c.parish_id = d.parish_id
       /\ TimeKey(c.response_date_time) <= TimeKey(d.response_date_time)

\* Contents of calls with at most n rows. A table has no order of its own and
\* nothing downstream depends on the order of the rows, so one order stands
\* for all of them.
RECURSIVE Tables(_)
Tables(n) ==
    IF n = 0 THEN {<<>>}
    ELSE LET shorter == Tables(n - 1)
             full == {t \in shorter : Len(t) = n - 1}
             ext == {tc \in full \X CallRows :
                        Len(tc[1]) = 0 \/ RowLeq(tc[1][Len(tc[1])], tc[2])}
         IN shorter \cup {Append(tc[1], tc[2]) : tc \in ext}

\* The history of the worked example: two calls in one hour, one in the next,
\* all of parish 7 and inside the look-back window of every request; in the
\* zone "local" the last one falls after the change to daylight saving time.
ExampleCalls ==
    <<[parish_id |-> 7, response_date_time |-> <<-2 * Hour>>],
      [parish_id |-> 7, response_date_time |-> <<-2 * Hour + 1>>],
      [parish_id |-> 7, response_date_time |-> <<-Hour>>]>>

----------------------------------------------------------------------------
(* Initial states *)

InitLocals ==
    /\ store = {}
    /\ commit_order = <<>>
    /\ rows = [r \in Runs |-> <<>>]
    /\ series = [r \in Runs |-> <<>>]
    /\ future_index = [r \in Runs |-> <<>>]
    /\ baseline = [r \in Runs |-> NaN]
    /\ forecast = [r \in Runs |-> <<>>]
    /\ idx = [r \in Runs |-> 0]
    /\ pending = [r \in Runs |-> <<>>]
    /\ issued = [r \in Runs |-> [inserts |-> 0, commits |-> 0]]
    /\ result = [r \in Runs |-> NoResult]

\* one request, any history; a run on its own never inserts a key twice, so
\* the key of the table plays no part
Init ==
    /\ calls \in Tables(MaxCalls)
    /\ tz \in Zones
    /\ unique_key = FALSE
    /\ \E q \in Requests :
          payload = [r \in Runs |-> IF r = "A" THEN q ELSE NoRequest]
    /\ pc = [r \in Runs |-> IF r = "A" THEN "Received" ELSE "Idle"]
    /\ InitLocals

\* two requests in flight at once, whole-area granularity and an aware end,
\* the example history, a table with or without the unique key
InitConc ==
    /\ calls = ExampleCalls
    /\ tz \in Zones
    /\ unique_key \in BOOLEAN
    /\ payload \in [Runs -> {q \in Requests :
                        q.granularity = "global" /\ q.end_tz = "UTC"}]
    /\ pc = [r \in Runs |-> "Received"]
    /\ InitLocals

----------------------------------------------------------------------------
(* generate_forecast, one action per step *)

\* run_forecast calls generate_forecast, which issues the SELECT (line 8)
StartLoad(r) ==
    /\ pc[r] = "Received"
    /\ pc' = [pc EXCEPT ![r] = "Loading"]
    /\ UNCHANGED <<calls, tz, unique_key, commit_order, store, payload, rows,
                   series, future_index, baseline, forecast, idx, pending,
                   issued, result>>

\* a variant without the early return of lines 26-27
LoadOkNoEarlyReturn(r) ==
    /\ pc[r] = "Loading"
    /\ rows' = [rows EXCEPT ![r] = CallTs(HistoricalQuery(calls, payload[r], tz))]
    /\ pc' = [pc EXCEPT ![r] = "Bucketing"]
    /\ UNCHANGED <<calls, tz, unique_key, commit_order, store, payload,
                   series, future_index, baseline, forecast, idx, pending,
                   issued, result>>

\* the SELECT returns (lines 8-24); `if not rows: return {"message": "No data"}`
LoadOk(r) ==
    /\ pc[r] = "Loading"
    /\ LET got == CallTs(HistoricalQuery(calls, payload[r], tz))
       IN /\ rows' = [rows EXCEPT ![r] = got]
          /\ IF got = <<>>
             THEN /\ pc' = [pc EXCEPT ![r] = "NoData"]
                  /\ result' = [result EXCEPT ![r] = NoDataResult]
             ELSE /\ pc' = [pc EXCEPT ![r] = "Bucketing"]
                  /\ UNCHANGED result
    /\ UNCHANGED <<calls, tz, unique_key, commit_order, store, payload,
                   series, future_index, baseline, forecast, idx, pending,
                   issued>>

\* the SELECT raises; run_forecast turns it into HTTP 500 (lines 22-23)
LoadFail(r) ==
    /\ pc[r] = "Loading"
    /\ pc' = [pc EXCEPT ![r] = "Failed"]
    /\ result' = [result EXCEPT ![r] = ErrorResult]
    /\ UNCHANGED <<calls, tz, unique_key, commit_order, store, payload, rows,
                   series, future_index, baseline, forecast, idx, pending,
                   issued>>

\* lines 30-32
Bucketize(r) ==
    /\ pc[r] = "Bucketing"
    /\ ~MixedOffsets(tz, rows[r])
    /\ series' = [series EXCEPT ![r] = GroupSize(rows[r])]
    /\ pc' = [pc EXCEPT ![r] = "Indexing"]
    /\ UNCHANGED <<calls, tz, unique_key, commit_order, store, payload, rows,
                   future_index, baseline, forecast, idx, pending, issued,
                   result>>

\* line 31 raises on a column of mixed UTC offsets: nothing was written,
\* HTTP 500
BucketizeFail(r) ==
    /\ pc[r] = "Bucketing"
    /\ MixedOffsets(tz, rows[r])
    /\ pc' = [pc EXCEPT ![r] = "Failed"]
    /\ result' = [result EXCEPT ![r] = ErrorResult]
    /\ UNCHANGED <<calls, tz, unique_key, commit_order, store, payload, rows,
                   series, future_index, baseline, forecast, idx, pending,
                   issued>>

\* future_index = pd.date_range(payload.start, payload.end, freq="H"),
\* line 35: the first statement after the bucketizer
Index(r) ==
    /\ pc[r] = "Indexing"
    /\ SameZone(payload[r])
    /\ future_index' = [future_index EXCEPT ![r] =
          DateRange(payload[r].start, payload[r].end)]
    /\ pc' = [pc EXCEPT ![r] = "Estimating"]
    /\ UNCHANGED <<calls, tz, unique_key, commit_order, store, payload, rows,
                   series, baseline, forecast, idx, pending, issued, result>>

\* series.mean(), line 37, evaluated as an argument of pd.Series
Estimate(r) ==
    /\ pc[r] = "Estimating"
    /\ baseline' = [baseline EXCEPT ![r] = Mean(series[r])]
    /\ pc' = [pc EXCEPT ![r] = "Projecting"]
    /\ UNCHANGED <<calls, tz, unique_key, commit_order, store, payload, rows,
                   series, future_index, forecast, idx, pending, issued,
                   result>>

\* forecast = pd.Series(...), lines 36-40
Projection(r) ==
    /\ pc[r] = "Projecting"
    /\ forecast' = [forecast EXCEPT ![r] = Project(future_index[r], baseline[r])]
    /\ idx' = [idx EXCEPT ![r] = 0]
    /\ pc' = [pc EXCEPT ![r] = "Writing"]
    /\ UNCHANGED <<calls, tz, unique_key, commit_order, store, payload, rows,
                   series, future_index, baseline, pending, issued, result>>

\* pd.date_range (line 35) raises on a start and an end of different zones,
\* before the mean is taken: nothing was written, HTTP 500
IndexFail(r) ==
    /\ pc[r] = "Indexing"
    /\ ~SameZone(payload[r])
    /\ pc' = [pc EXCEPT ![r] = "Failed"]
    /\ result' = [result EXCEPT ![r] = ErrorResult]
    /\ UNCHANGED <<calls, tz, unique_key, commit_order, store, payload, rows,
                   series, future_index, baseline, forecast, idx, pending,
                   issued>>

\* db.commit() indented into the loop: every INSERT is committed at once
InsertCommitInLoop(r) ==
    /\ pc[r] = "Writing"
    /\ idx[r] < Len(forecast[r])
    /\ store' = SessionCommit(store,
          SessionExecute(pending[r],
              InsertParams(r, payload[r], forecast[r][idx[r] + 1])))
    /\ pending' = [pending EXCEPT ![r] = <<>>]
    /\ idx' = [idx EXCEPT ![r] = @ + 1]
    /\ issued' = [issued EXCEPT ![r].inserts = @ + 1]
    /\ commit_order' = Append(commit_order, r)
    /\ UNCHANGED <<calls, tz, unique_key, pc, payload, rows, series,
                   future_index, baseline, forecast, result>>

\* the rows in the open transactions of the sessions other than r's
OpenElsewhere(r) ==
    UNION {{pending[q][i] : i \in DOMAIN pending[q]} :
              q \in {o \in Runs \ {r} : pc[o] = "Writing"}}

\* one iteration of the loop of lines 43-66: the INSERT joins the session's
\* open transaction
Insert(r) ==
    /\ pc[r] = "Writing"
    /\ idx[r] < Len(forecast[r])
    /\ LET row == InsertParams(r, payload[r], forecast[r][idx[r] + 1])
       IN /\ ~KeyTaken(unique_key, store, OpenElsewhere(r), row)
          /\ pending' = [pending EXCEPT ![r] = SessionExecute(@, row)]
    /\ idx' = [idx EXCEPT ![r] = @ + 1]
    /\ issued' = [issued EXCEPT ![r].inserts = @ + 1]
    /\ UNCHANGED <<calls, tz, unique_key, commit_order, store, pc, payload,
                   rows, series, future_index, baseline, forecast, result>>

\* the loop takes the next item and issues its INSERT, which raises (a lost
\* connection, a violated constraint, a deadlock): the statement adds no row
\* to the transaction, the loop is left, nothing is committed, HTTP 500
InsertFail(r) ==
    /\ pc[r] = "Writing"
    /\ idx[r] < Len(forecast[r])
    /\ idx' = [idx EXCEPT ![r] = @ + 1]
    /\ issued' = [issued EXCEPT ![r].inserts = @ + 1]
    /\ pc' = [pc EXCEPT ![r] = "Failed"]
    /\ result' = [result EXCEPT ![r] = ErrorResult]
    /\ UNCHANGED <<calls, tz, unique_key, commit_order, store, payload, rows,
                   series, future_index, baseline, forecast, pending>>

\* a commit placed inside the loop
CommitEarly(r) ==
    /\ pc[r] = "Writing"
    /\ store' = SessionCommit(store, pending[r])
    /\ pending' = [pending EXCEPT ![r] = <<>>]
    /\ issued' = [issued EXCEPT ![r].commits = @ + 1]
    /\ commit_order' = Append(commit_order, r)
    /\ result' = [result EXCEPT ![r] = Summary(Len(forecast[r]))]
    /\ pc' = [pc EXCEPT ![r] = "Committed"]
    /\ UNCHANGED <<calls, tz, unique_key, payload, rows, series, future_index,
                   baseline, forecast, idx>>

\* an upsert: the commit replaces the stored rows of the same area, cell and
\* bucket
CommitReplacing(r) ==
    /\ pc[r] = "Writing"
    /\ idx[r] = Len(forecast[r])
    /\ LET kept == {x \in store :
                      \A i \in DOMAIN pending[r] : ~SameKey(x, pending[r][i])}
       IN store' = SessionCommit(kept, pending[r])
    /\ pending' = [pending EXCEPT ![r] = <<>>]
    /\ issued' = [issued EXCEPT ![r].commits = @ + 1]
    /\ commit_order' = Append(commit_order, r)
    /\ result' = [result EXCEPT ![r] = Summary(Len(forecast[r]))]
    /\ pc' = [pc EXCEPT ![r] = "Committed"]
    /\ UNCHANGED <<calls, tz, unique_key, payload, rows, series, future_index,
                   baseline, forecast, idx>>

\* the loop is over: db.commit() (line 68) makes the transaction's rows
\* visible together, and the summary of lines 70-73 is returned
Commit(r) ==
    /\ pc[r] = "Writing"
    /\ idx[r] = Len(forecast[r])
    /\ store' = SessionCommit(store, pending[r])
    /\ pending' = [pending EXCEPT ![r] = <<>>]
    /\ issued' = [issued EXCEPT ![r].commits = @ + 1]
    /\ commit_order' = Append(commit_order, r)
    /\ result' = [result EXCEPT ![r] = Summary(Len(forecast[r]))]
    /\ pc' = [pc EXCEPT ![r] = "Committed"]
    /\ UNCHANGED <<calls, tz, unique_key, payload, rows, series, future_index,
                   baseline, forecast, idx>>

\* db.commit() raises: the transaction is never committed, HTTP 500
CommitFail(r) ==
    /\ pc[r] = "Writing"
    /\ idx[r] = Len(forecast[r])
    /\ issued' = [issued EXCEPT ![r].commits = @ + 1]
    /\ pc' = [pc EXCEPT ![r] = "Failed"]
    /\ result' = [result EXCEPT ![r] = ErrorResult]
    /\ UNCHANGED <<calls, tz, unique_key, commit_order, store, payload, rows,
                   series, future_index, baseline, forecast, idx, pending>>

Step(r) ==
    \/ StartLoad(r)
    \/ LoadOk(r)
    \/ LoadFail(r)
    \/ Bucketize(r)
    \/ BucketizeFail(r)
    \/ Index(r)
    \/ IndexFail(r)
    \/ Estimate(r)
    \/ Projection(r)
    \/ Insert(r)
    \/ InsertFail(r)
    \/ Commit(r)
    \/ CommitFail(r)

Next == \E r \in Runs : Step(r)

Spec == Init /\ [][Next]_vars

ConcSpec == InitConc /\ [][Next]_vars

\* generate_forecast is straight-line code with one bounded loop: a run that
\* can take a step takes it, whatever the other run does
FairSpec == InitConc /\ [][Next]_vars /\ \A r \in Runs : WF_vars(Step(r))

----------------------------------------------------------------------------
(* Vocabulary of the properties *)

Started == {r \in Runs : pc[r] # "Idle"}
Terminal == {"NoData", "Committed", "Failed"}

\* the rows of a set listed by ascending bucket_start
RECURSIVE ByBucketStart(_)
ByBucketStart(S) ==
    IF S = {} THEN <<>>
    ELSE LET x == CHOOSE y \in S : \A z \in S : y.bucket_start <= z.bucket_start
         IN <<x>> \o ByBucketStart(S \ {x})

\* the rows of table tbl that run r inserted, by ascending bucket_start
RowsOf(r, tbl) == ByBucketStart({x \in tbl : x.run = r})

\* every row a run has inserted so far, visible or not
AllRowsOf(r) == RowsOf(r, store) \o pending[r]

Window(r) == payload[r].end - payload[r].start

HoursOf(ts) == {FloorHour(ts[i][1]) : i \in {j \in DOMAIN ts : ts[j] # Null}}

----------------------------------------------------------------------------
\* C1. Bucket contiguity: a committed run with requestedStart < requestedEnd
\* has inserted exactly ceil((requestedEnd - requestedStart) / 1 hour) rows,
\* with pairwise distinct bucket_start values, consecutive ones 1 hour apart,
\* each row with bucket_end = bucket_start + 1 hour.
C1_BucketContiguity ==
    \A r \in Started :
        (pc[r] = "Committed" /\ payload[r].start < payload[r].end) =>
            LET w == RowsOf(r, store)
            IN /\ Len(w) = CeilDiv(Window(r), Hour)
               /\ \A i \in DOMAIN w : w[i].bucket_end = w[i].bucket_start + Hour
               /\ \A i \in DOMAIN w : i < Len(w) =>
                     w[i + 1].bucket_start = w[i].bucket_start + Hour
               /\ \A i, j \in DOMAIN w :
                     i # j => w[i].bucket_start # w[j].bucket_start

\* C2. Half-open cover: the first row a run inserts starts at requestedStart
\* and every inserted row has requestedStart <= bucket_start < requestedEnd;
\* stated for the requests the interface admits, requestedStart < requestedEnd.
C2_HalfOpenCover ==
    \A r \in Started :
        payload[r].start < payload[r].end =>
            LET w == AllRowsOf(r)
            IN /\ w # <<>> => w[1].bucket_start = payload[r].start
               /\ \A i \in DOMAIN w :
                     /\ payload[r].start <= w[i].bucket_start
                     /\ w[i].bucket_start < payload[r].end

\* C6. Inverted or empty range: when requestedEnd <= requestedStart the run
\* inserts no row at all.
C6_EmptyRangeNoRows ==
    \A r \in Started :
        payload[r].end <= payload[r].start =>
            /\ issued[r].inserts = 0
            /\ AllRowsOf(r) = <<>>

----------------------------------------------------------------------------
\* C3. Atomic write: the rows of a run are visible in forecast_heatmap only
\* once the run has committed, and then all of them are; a run that failed
\* after inserting rows leaves none of them visible.
C3_AtomicWrite ==
    \A r \in Started :
        LET mine == RowsOf(r, store)
        IN /\ pc[r] # "Committed" => mine = <<>>
           /\ pc[r] = "Committed" =>
                 /\ Len(mine) = issued[r].inserts
                 /\ Len(mine) = Len(forecast[r])
                 /\ pending[r] = <<>>

\* a run failed after at least one INSERT while the other run's rows are
\* stored
C3_Witness ==
    \E r \in Started : \E q \in Started :
        /\ pc[r] = "Failed"
        /\ issued[r].inserts >= 1
        /\ pending[r] # <<>>
        /\ pc[q] = "Committed"
        /\ store # {}

----------------------------------------------------------------------------
\* C4. Empty-input short-circuit: once the historical query has returned no
\* event, the run is in NoData with the result {message: "No data"}, has
\* issued no INSERT and no commit, and the output store is as it was.
C4_EmptyInputShortCircuit ==
    \A r \in Started :
        (/\ pc[r] \notin {"Received", "Loading", "Failed"}
         /\ rows[r] = <<>>) =>
            /\ pc[r] = "NoData"
            /\ result[r] = NoDataResult
            /\ issued[r] = [inserts |-> 0, commits |-> 0]
            /\ AllRowsOf(r) = <<>>
            /\ store = {}

\* the only candidate is a call 90 * 24 hours before the start, which a
\* session zone with a change of UTC offset in the window leaves out
C4_Witness ==
    \E r \in Started :
        /\ pc[r] = "NoData"
        /\ result[r] = NoDataResult
        /\ tz = "local"
        /\ \E i \in DOMAIN calls :
              /\ calls[i].parish_id = payload[r].parish_id
              /\ calls[i].response_date_time = <<payload[r].start - Lookback>>
              /\ payload[r].start < payload[r].end

----------------------------------------------------------------------------
\* C5. Flat baseline: every row a run inserts carries the same forecast
\* value v, and v * (number of distinct hours holding a loaded event) =
\* (number of loaded events).
C5_FlatBaseline ==
    \A r \in Started :
        LET w == AllRowsOf(r)
        IN \A i \in DOMAIN w :
              LET v == w[i].forecast_calls
              IN /\ v = w[1].forecast_calls
                 /\ v[2] > 0
                 /\ v[1] * Cardinality(HoursOf(rows[r])) = v[2] * Len(rows[r])

\* three events in two hours apart from each other, projected on two rows
C5_Witness ==
    \E r \in Started :
        /\ Len(AllRowsOf(r)) >= 2
        /\ Len(rows[r]) = 3
        /\ AllRowsOf(r)[2].forecast_calls = <<3, 2>>
        /\ \E b \in HoursOf(rows[r]) : b + Hour \notin HoursOf(rows[r])

----------------------------------------------------------------------------
\* C7. A committed run returns rows_written equal to the number of rows it
\* inserted, and every row a run inserts carries model_version "naive_v0"
\* (the value returned), cell_id "global" and the request's parish_id.
C7_SummaryMatchesRows ==
    \A r \in Started :
        /\ pc[r] = "Committed" =>
              /\ result[r].rows_written = Len(RowsOf(r, store))
              /\ result[r].rows_written = issued[r].inserts
              /\ result[r].model_version = "naive_v0"
        /\ \A i \in DOMAIN AllRowsOf(r) :
              /\ AllRowsOf(r)[i].model_version = "naive_v0"
              /\ AllRowsOf(r)[i].cell_id = "global"
              /\ AllRowsOf(r)[i].parish_id = payload[r].parish_id

\* a committed run of several rows whose request asked for another granularity
C7_Witness ==
    \E r \in Started :
        /\ pc[r] = "Committed"
        /\ result[r].rows_written >= 2
        /\ payload[r].granularity = "zone"

----------------------------------------------------------------------------
\* The stage a position of generate_forecast is in. The specified machine has
\* no stage between Bucketing and Estimating; the statement executed there
\* (line 35, the hourly index of the requested window) reads the request
\* alone and is counted with the stage entered when the bucketizer returns.
PipelineStage(at) == IF at = "Indexing" THEN "Estimating" ELSE at

FailingStages ==
    {"Loading", "Bucketing", "Estimating", "Projecting", "Writing"}

\* the transitions of the pipeline's state machine as specified
StageOrder ==
    {<<"Received", "Loading">>, <<"Loading", "NoData">>,
     <<"Loading", "Bucketing">>, <<"Bucketing", "Estimating">>,
     <<"Estimating", "Projecting">>, <<"Projecting", "Writing">>,
     <<"Writing", "Committed">>}
    \cup {<<s, "Failed">> : s \in FailingStages}

\* a raise ends in Failed, Committed is entered with every INSERT issued and
\* one commit, and nothing of a run changes after a terminal state
RunStep(r) ==
    /\ (result'[r] = ErrorResult) <=> (pc'[r] = "Failed")
    /\ pc'[r] = "Committed" =>
          /\ issued'[r].inserts = Len(forecast'[r])
          /\ issued'[r].commits = 1
    /\ pc[r] \in Terminal =>
          /\ pc'[r] = pc[r]
          /\ result'[r] = result[r]
          /\ issued'[r] = issued[r]
          /\ pending'[r] = pending[r]
          /\ RowsOf(r, store') = RowsOf(r, store)

PipelineStep ==
    \A r \in Runs :
        /\ PipelineStage(pc'[r]) # PipelineStage(pc[r]) =>
              <<PipelineStage(pc[r]), PipelineStage(pc'[r])>> \in StageOrder
        /\ RunStep(r)

\* C8. Pipeline state machine: a run moves only along Received -> Loading ->
\* (NoData | Bucketing -> Estimating -> Projecting -> Writing -> Committed),
\* or from a stage to Failed when it raises; Committed is entered only with
\* every INSERT issued; nothing of a run changes after a terminal state; and
\* every received run eventually is in a terminal state.
C8_Pipeline ==
    /\ [][PipelineStep]_vars
    /\ \A r \in Runs : (pc[r] = "Received") ~> (pc[r] \in Terminal)

\* a run committed after a loop of several INSERTs
C8_Witness ==
    \E r \in Started :
        /\ pc[r] = "Committed"
        /\ issued[r].inserts >= 2
        /\ issued[r].commits = 1

----------------------------------------------------------------------------
\* two committed runs of the same area
BothCommitted ==
    /\ \A r \in Runs : pc[r] = "Committed"
    /\ payload["A"].parish_id = payload["B"].parish_id

StartsOf(r) == {forecast[r][k][1] : k \in DOMAIN forecast[r]}
Overlap == StartsOf("A") \cap StartsOf("B")

StoredAt(b) ==
    {x \in store : x.parish_id = payload["A"].parish_id /\ x.bucket_start = b}

LastCommitted == commit_order[Len(commit_order)]

----------------------------------------------------------------------------
\* C10. Past the no-data check every loaded event has a timestamp and falls
\* in exactly one bucket, so the mapping given to the estimator is not empty
\* and the baseline is a defined value >= 0.
C10_EstimatorInputNonEmpty ==
    \A r \in Started :
        /\ pc[r] \in {"Bucketing", "Indexing", "Estimating", "Projecting",
                      "Writing", "Committed"} =>
              /\ rows[r] # <<>>
              /\ \A i \in DOMAIN rows[r] : rows[r][i] # Null
        /\ pc[r] \in {"Indexing", "Estimating", "Projecting", "Writing",
                      "Committed"} =>
              /\ DOMAIN series[r] # {}
              /\ SumOver(series[r], DOMAIN series[r]) = Len(rows[r])
              /\ \A b \in DOMAIN series[r] : series[r][b] >= 1
        /\ pc[r] \in {"Projecting", "Writing", "Committed"} =>
              /\ baseline[r] # NaN
              /\ baseline[r][2] > 0
              /\ baseline[r][1] >= 0

\* the baseline was estimated although calls holds a row of the requested
\* parish without a timestamp
C10_Witness ==
    \E r \in Started :
        /\ pc[r] = "Projecting"
        /\ baseline[r] # NaN
        /\ \E i \in DOMAIN calls :
              /\ calls[i].parish_id = payload[r].parish_id
              /\ calls[i].response_date_time = Null

====
